---- MODULE Spec2Model ----
(***************************************************************************)
(* Model of the task slice of K8TodoFE (src/store/slices/tasksSlice.js):   *)
(* the slice state {tasks, loading, error}, the five createAsyncThunk      *)
(* operations with their pending / fulfilled / rejected reducers, the      *)
(* clearError reducer, the requests in flight and the REST server the      *)
(* thunks talk to.                                                         *)
(***************************************************************************)
EXTENDS Integers, Sequences, FiniteSets, TLC

VARIABLES
    tasks,      \* state.tasks: the local task list
    loading,    \* state.loading
    error,      \* state.error: NULL or a message
    inflight,   \* thunks dispatched and not yet settled, in dispatch order
    db,         \* the server's collection (GET /tasks returns it)
    nextId,     \* the identifier the server gives the next created task
    issued,     \* number of thunks dispatched so far
    limit,      \* number of thunks a behaviour may dispatch, set by its Init
    last,       \* the action the reducer applied last and the state it was applied to;
                \* the payload of the latest rejected action, and whether a pending
                \* action or clearError has been applied since
    http,       \* number of axios calls made so far
    settled,    \* number of fulfilled / rejected actions reduced so far
    app,        \* root view: mounted, showTaskForm, editingTask (<<>> is null), the
                \* pending error timer; the mounts and the fetches dispatched so far;
                \* overtaken: a rejected action was reduced after the timer set
                \* last was set, and did not set a new one
    form,       \* the mounted form's title and description fields
    deleting,   \* identifiers of the mounted items whose isDeleting is true
    standalone, \* <<task>>: an item view rendered on its own; <<>>: none
    event       \* the view handler that ran last, and the state it ran in

sliceVars ==
    <<tasks, loading, error, inflight, db, nextId, issued, limit, last, http, settled>>

viewVars == <<app, form, deleting, standalone, event>>

vars == <<sliceVars, viewVars>>

\* ---------------------------------------------------------------- values
\* JavaScript values are dynamically typed. The argument of a thunk, the
\* payload of an action and the body of a response are kept in the variables
\* together with their kind, so that any two states can be compared.
Typed(kind, v) ==
    CASE kind = "text" -> [text |-> v]
      [] kind = "id" -> [id |-> v]
      [] kind = "record" -> [record |-> v]
      [] kind = "list" -> [list |-> v]

Value(typed) == typed[CHOOSE kind \in DOMAIN typed : TRUE]

\* arg of thunk(arg): nothing, the task data, or a task identifier.
ArgKind(op) ==
    CASE op \in {"addTask", "updateTask"} -> "record"
      [] op \in {"toggleTask", "deleteTask"} -> "id"
      [] OTHER -> "text"

\* response.data: the collection, a task, or nothing.
DataKind(op, ok) ==
    IF ~ok \/ op = "deleteTask" THEN "text"
    ELSE IF op = "fetchTasks" THEN "list" ELSE "record"

\* action.payload: response.data or the identifier when fulfilled, a message
\* when rejected, undefined otherwise.
PayloadKind(type, op) ==
    IF type # "fulfilled" THEN "text"
    ELSE IF op = "deleteTask" THEN "id" ELSE DataKind(op, TRUE)

TypedAction(action) ==
    [action EXCEPT !.arg = Typed(ArgKind(action.op), @),
                   !.payload = Typed(PayloadKind(action.type, action.op), @)]

TypedRequest(r) ==
    [r EXCEPT !.arg = Typed(ArgKind(r.op), @),
              !.response.data = Typed(DataKind(r.op, r.response.ok), @)]

TypedCall(call) == [call EXCEPT !.arg = Typed(ArgKind(call.op), @)]

\* Request i in flight, with the values the payload creator holds.
Request(i) == [inflight[i] EXCEPT !.arg = Value(@), !.response.data = Value(@)]

\* ---------------------------------------------------------------- bounds
\* Total number of thunk dispatches explored.
MaxRequests == 3

\* Requests issued by the views in one behaviour of the view specifications.
MaxViewRequests == 2

\* Requests of one behaviour of the loaded list, the mount fetch included.
MaxLoadedRequests == 4

\* The same for the behaviours checked for what they reach in the end.
MaxLiveRequests == 3

\* ---------------------------------------------------------------- values
\* JavaScript null (initialState.error) and undefined (a missing field).
NULL == "null"
UNDEFINED == "undefined"

\* Strings are sequences of characters, so that String.prototype.trim can be
\* computed; Str gives the text of a one-character string.
Str(c) == <<c>>

\* Titles a caller passes to addTask / updateTask.
Titles == {Str("x")}

Task(id, title, description, completed) ==
    [_id |-> id, title |-> title, description |-> description, completed |-> completed]

\* The collection the server holds when the client starts.
InitialDb == <<Task(1, Str("a"), <<>>, FALSE), Task(2, Str("b"), <<>>, TRUE)>>

\* The message field of a failure response: absent, empty, or a text.
FailureMessages == {UNDEFINED, "", "Validation error"}

\* ---------------------------------------------------------------- helpers
\* Array.prototype.findIndex with task => task._id === id; 0 stands for -1.
RECURSIVE FindFrom(_, _, _)
FindFrom(list, id, i) ==
    IF i > Len(list) THEN 0
    ELSE IF list[i]._id = id THEN i
    ELSE FindFrom(list, id, i + 1)

findIndex(list, id) == FindFrom(list, id, 1)

\* Array.prototype.filter with task => task._id !== id.
RECURSIVE filterOut(_, _)
filterOut(list, id) ==
    IF list = <<>> THEN <<>>
    ELSE IF Head(list)._id # id THEN <<Head(list)>> \o filterOut(Tail(list), id)
    ELSE filterOut(Tail(list), id)

\* a || b on strings: b when a is undefined or the empty string.
Or(a, b) == IF a \in {UNDEFINED, ""} THEN b ELSE a

SliceState == [tasks |-> tasks, loading |-> loading, error |-> error]

\* ---------------------------------------------------------------- reducers
initialState == [tasks |-> <<>>, loading |-> FALSE, error |-> NULL]

\* Variant: clearError resets the flags, not only the error.
clearError_resetsLoading(state) == [state EXCEPT !.error = NULL, !.loading = FALSE]

clearError(state) == [state EXCEPT !.error = NULL]

\* Variant: a new fetch drops the list while it loads.
fetchTasks_pending_dropsList(state) ==
    [state EXCEPT !.loading = TRUE, !.error = NULL, !.tasks = <<>>]

fetchTasks_pending(state) == [state EXCEPT !.loading = TRUE, !.error = NULL]

\* Variant: the fetched array is appended to the list instead of replacing it.
fetchTasks_fulfilled_appends(state, payload) ==
    [state EXCEPT !.loading = FALSE, !.tasks = state.tasks \o payload]

fetchTasks_fulfilled(state, payload) ==
    [state EXCEPT !.loading = FALSE, !.tasks = payload]

\* Variant: a failed fetch leaves loading set.
fetchTasks_rejected_keepsLoading(state, payload) ==
    [state EXCEPT !.error = payload]

fetchTasks_rejected(state, payload) ==
    [state EXCEPT !.loading = FALSE, !.error = payload]

\* Variant: the pending case does not clear the error.
addTask_pending_keepsError(state) == [state EXCEPT !.loading = TRUE]

addTask_pending(state) == [state EXCEPT !.loading = TRUE, !.error = NULL]

\* Variant: push instead of unshift.
addTask_fulfilled_pushes(state, payload) ==
    [state EXCEPT !.loading = FALSE, !.tasks = Append(state.tasks, payload)]

addTask_fulfilled(state, payload) ==
    [state EXCEPT !.loading = FALSE, !.tasks = <<payload>> \o state.tasks]

\* Variant: a failed create empties the list.
addTask_rejected_clearsList(state, payload) ==
    [state EXCEPT !.loading = FALSE, !.error = payload, !.tasks = <<>>]

addTask_rejected(state, payload) ==
    [state EXCEPT !.loading = FALSE, !.error = payload]

updateTask_pending(state) == [state EXCEPT !.loading = TRUE, !.error = NULL]

\* Variant: the updated record is moved to the front of the list.
updateTask_fulfilled_movesToFront(state, payload) ==
    LET index == findIndex(state.tasks, payload._id)
    IN  IF index # 0
        THEN [state EXCEPT !.loading = FALSE,
                           !.tasks = <<payload>> \o SubSeq(state.tasks, 1, index - 1)
                                     \o SubSeq(state.tasks, index + 1, Len(state.tasks))]
        ELSE [state EXCEPT !.loading = FALSE]

\* Variant: upsert, a record that is not found is put at the front.
updateTask_fulfilled_upserts(state, payload) ==
    LET index == findIndex(state.tasks, payload._id)
    IN  IF index # 0
        THEN [state EXCEPT !.loading = FALSE, !.tasks[index] = payload]
        ELSE [state EXCEPT !.loading = FALSE, !.tasks = <<payload>> \o state.tasks]

updateTask_fulfilled(state, payload) ==
    LET index == findIndex(state.tasks, payload._id)
    IN  IF index # 0
        THEN [state EXCEPT !.loading = FALSE, !.tasks[index] = payload]
        ELSE [state EXCEPT !.loading = FALSE]

\* Variant: an error already shown is kept.
updateTask_rejected_keepsFirst(state, payload) ==
    [state EXCEPT !.loading = FALSE,
                  !.error = IF state.error # NULL THEN state.error ELSE payload]

updateTask_rejected(state, payload) ==
    [state EXCEPT !.loading = FALSE, !.error = payload]

toggleTask_pending(state) == [state EXCEPT !.loading = TRUE, !.error = NULL]

\* Variant: upsert, a record that is not found is inserted.
toggleTask_fulfilled_upserts(state, payload) ==
    LET index == findIndex(state.tasks, payload._id)
    IN  IF index # 0
        THEN [state EXCEPT !.loading = FALSE, !.tasks[index] = payload]
        ELSE [state EXCEPT !.loading = FALSE, !.tasks = Append(state.tasks, payload)]

\* Variant: the local record is flipped instead of replaced by the response.
toggleTask_fulfilled_flipsLocal(state, payload) ==
    LET index == findIndex(state.tasks, payload._id)
    IN  IF index # 0
        THEN [state EXCEPT !.loading = FALSE,
                           !.tasks[index].completed = ~state.tasks[index].completed]
        ELSE [state EXCEPT !.loading = FALSE]

toggleTask_fulfilled(state, payload) ==
    LET index == findIndex(state.tasks, payload._id)
    IN  IF index # 0
        THEN [state EXCEPT !.loading = FALSE, !.tasks[index] = payload]
        ELSE [state EXCEPT !.loading = FALSE]

\* Variant: loading is left as it is.
toggleTask_rejected_keepsLoading(state, payload) == [state EXCEPT !.error = payload]

toggleTask_rejected(state, payload) ==
    [state EXCEPT !.loading = FALSE, !.error = payload]

deleteTask_pending(state) == [state EXCEPT !.loading = TRUE, !.error = NULL]

\* Variant: the filter predicate is inverted (=== for !==).
deleteTask_fulfilled_keepsMatch(state, payload) ==
    [state EXCEPT !.loading = FALSE,
                  !.tasks = SelectSeq(state.tasks, LAMBDA t : t._id = payload)]

\* Variant: the first entry is removed, whatever its identifier.
deleteTask_fulfilled_dropsFirst(state, payload) ==
    [state EXCEPT !.loading = FALSE,
                  !.tasks = IF state.tasks = <<>> THEN <<>> ELSE Tail(state.tasks)]

deleteTask_fulfilled(state, payload) ==
    [state EXCEPT !.loading = FALSE, !.tasks = filterOut(state.tasks, payload)]

\* Variant: loading is reference counted, false only when nothing else is in flight.
deleteTask_rejected_counted(state, payload) ==
    [state EXCEPT !.loading = Len(inflight) > 1, !.error = payload]

deleteTask_rejected(state, payload) ==
    [state EXCEPT !.loading = FALSE, !.error = payload]

\* The slice reducer: the case that createSlice runs for an action.
tasksReducer(state, action) ==
    CASE action.type = "clearError" -> clearError(state)
      [] action.type = "pending" /\ action.op = "fetchTasks" -> fetchTasks_pending(state)
      [] action.type = "fulfilled" /\ action.op = "fetchTasks" -> fetchTasks_fulfilled(state, action.payload)
      [] action.type = "rejected" /\ action.op = "fetchTasks" -> fetchTasks_rejected(state, action.payload)
      [] action.type = "pending" /\ action.op = "addTask" -> addTask_pending(state)
      [] action.type = "fulfilled" /\ action.op = "addTask" -> addTask_fulfilled(state, action.payload)
      [] action.type = "rejected" /\ action.op = "addTask" -> addTask_rejected(state, action.payload)
      [] action.type = "pending" /\ action.op = "updateTask" -> updateTask_pending(state)
      [] action.type = "fulfilled" /\ action.op = "updateTask" -> updateTask_fulfilled(state, action.payload)
      [] action.type = "rejected" /\ action.op = "updateTask" -> updateTask_rejected(state, action.payload)
      [] action.type = "pending" /\ action.op = "toggleTask" -> toggleTask_pending(state)
      [] action.type = "fulfilled" /\ action.op = "toggleTask" -> toggleTask_fulfilled(state, action.payload)
      [] action.type = "rejected" /\ action.op = "toggleTask" -> toggleTask_rejected(state, action.payload)
      [] action.type = "pending" /\ action.op = "deleteTask" -> deleteTask_pending(state)
      [] action.type = "fulfilled" /\ action.op = "deleteTask" -> deleteTask_fulfilled(state, action.payload)
      [] action.type = "rejected" /\ action.op = "deleteTask" -> deleteTask_rejected(state, action.payload)

\* ---------------------------------------------------------------- thunks
\* The payload creators, as functions of the thunk argument and of the
\* outcome of the axios call: response.ok is FALSE when axios threw.
Fulfilled(payload) == [type |-> "fulfilled", payload |-> payload]
Rejected(payload) == [type |-> "rejected", payload |-> payload]

fetchTasks(arg, response) ==
    IF response.ok THEN Fulfilled(response.data)
    ELSE Rejected(Or(response.message, "Failed to fetch tasks"))

\* Variant: the default of another thunk, pasted.
addTask_wrongDefault(arg, response) ==
    IF response.ok THEN Fulfilled(response.data)
    ELSE Rejected(Or(response.message, "Failed to fetch tasks"))

addTask(arg, response) ==
    IF response.ok THEN Fulfilled(response.data)
    ELSE Rejected(Or(response.message, "Failed to add task"))

updateTask(arg, response) ==
    IF response.ok THEN Fulfilled(response.data)
    ELSE Rejected(Or(response.message, "Failed to update task"))

\* Variant: the message is passed on without a default.
toggleTask_noDefault(arg, response) ==
    IF response.ok THEN Fulfilled(response.data)
    ELSE Rejected(response.message)

toggleTask(arg, response) ==
    IF response.ok THEN Fulfilled(response.data)
    ELSE Rejected(Or(response.message, "Failed to toggle task"))

deleteTask(arg, response) ==
    IF response.ok THEN Fulfilled(arg)
    ELSE Rejected(Or(response.message, "Failed to delete task"))

Outcome(op, arg, response) ==
    CASE op = "fetchTasks" -> fetchTasks(arg, response)
      [] op = "addTask" -> addTask(arg, response)
      [] op = "updateTask" -> updateTask(arg, response)
      [] op = "toggleTask" -> toggleTask(arg, response)
      [] op = "deleteTask" -> deleteTask(arg, response)

\* ---------------------------------------------------------------- views
\* if (error), {error && ...}: a value is truthy unless null, undefined or "".
Truthy(v) == v \notin {NULL, UNDEFINED, ""}

completedTasks(list) == SelectSeq(list, LAMBDA task : task.completed)

\* Variant: the pending group is not filtered.
pendingTasks_unfiltered(list) == list

pendingTasks(list) == SelectSeq(list, LAMBDA task : ~task.completed)

\* A titled section of the list view, rendered only for a non-empty group.
Section(title, group) ==
    IF Len(group) > 0
    THEN <<[title |-> title, count |-> Len(group), rows |-> group]>>
    ELSE <<>>

\* Variant: the empty-state test comes before the error test.
TaskList_emptyFirst(state) ==
    IF state.loading
    THEN [view |-> "loading", text |-> <<"Loading tasks...">>, sections |-> <<>>]
    ELSE IF Len(state.tasks) = 0
    THEN [view |-> "empty",
          text |-> <<"No tasks yet", "Add your first task to get started!">>,
          sections |-> <<>>]
    ELSE IF Truthy(state.error)
    THEN [view |-> "error", text |-> <<"Error: ", state.error>>, sections |-> <<>>]
    ELSE [view |-> "rows", text |-> <<>>,
          sections |-> Section("Pending Tasks", pendingTasks(state.tasks))
                       \o Section("Completed Tasks", completedTasks(state.tasks))]

\* Variant: the error branch is missing, the rows are shown under the banner.
TaskList_rowsOnError(state) ==
    IF state.loading
    THEN [view |-> "loading", text |-> <<"Loading tasks...">>, sections |-> <<>>]
    ELSE IF Len(state.tasks) = 0
    THEN [view |-> "empty",
          text |-> <<"No tasks yet", "Add your first task to get started!">>,
          sections |-> <<>>]
    ELSE [view |-> "rows", text |-> <<>>,
          sections |-> Section("Pending Tasks", pendingTasks(state.tasks))
                       \o Section("Completed Tasks", completedTasks(state.tasks))]

\* What the list view renders for a slice state.
TaskList(state) ==
    IF state.loading
    THEN [view |-> "loading", text |-> <<"Loading tasks...">>, sections |-> <<>>]
    ELSE IF Truthy(state.error)
    THEN [view |-> "error", text |-> <<"Error: ", state.error>>, sections |-> <<>>]
    ELSE IF Len(state.tasks) = 0
    THEN [view |-> "empty",
          text |-> <<"No tasks yet", "Add your first task to get started!">>,
          sections |-> <<>>]
    ELSE [view |-> "rows", text |-> <<>>,
          sections |-> Section("Pending Tasks", pendingTasks(state.tasks))
                       \o Section("Completed Tasks", completedTasks(state.tasks))]

\* The header counts of the root view.
TaskStats(state) ==
    [pending |-> Len(SelectSeq(state.tasks, LAMBDA task : ~task.completed)),
     completed |-> Len(SelectSeq(state.tasks, LAMBDA task : task.completed)),
     total |-> Len(state.tasks)]

\* ---------------------------------------------------------------- server
\* The REST endpoints the thunks call.
Success(data) == [ok |-> TRUE, data |-> data, message |-> UNDEFINED]
Failure(message) == [ok |-> FALSE, data |-> NULL, message |-> message]

ServerIds == {db[i]._id : i \in 1..Len(db)}

\* Identifiers a caller passes: the views pass task._id of a task of the
\* local list (TaskItem.js handleToggle / handleDelete, TaskForm.js handleSubmit).
ListIds == {tasks[i]._id : i \in 1..Len(tasks)}

Args(op) ==
    CASE op = "fetchTasks" -> {UNDEFINED}
      [] op = "addTask" -> {[title |-> t, description |-> <<>>] : t \in Titles}
      [] op = "updateTask" ->
            {[id |-> i, taskData |-> [title |-> t, description |-> <<>>]] :
                i \in ListIds, t \in Titles}
      [] op = "toggleTask" -> ListIds
      [] op = "deleteTask" -> ListIds

\* ---------------------------------------------------------------- actions
Apply(action) ==
    LET next == tasksReducer(SliceState, action)
    IN  /\ tasks' = next.tasks
        /\ loading' = next.loading
        /\ error' = next.error
        /\ last' = TypedAction(
                [type |-> action.type, op |-> action.op, arg |-> action.arg,
                 payload |-> action.payload, message |-> action.message,
                 before |-> SliceState,
                 rejected |-> IF action.type = "rejected" THEN action.payload
                              ELSE last.rejected,
                 since |-> IF action.type = "rejected" THEN FALSE
                           ELSE last.since \/ action.type \in {"pending", "clearError"}])

\* dispatch(thunk(arg)) by caller origin: the pending action is reduced and the
\* payload creator makes its one axios call. awaited tells whether the caller's
\* component is still mounted to run what follows its await.
DispatchFrom(op, arg, origin, awaited) ==
    /\ issued < limit
    /\ issued' = issued + 1
    /\ Apply([type |-> "pending", op |-> op, arg |-> arg, payload |-> UNDEFINED,
              message |-> UNDEFINED])
    /\ inflight' = Append(inflight,
                          TypedRequest([op |-> op, arg |-> arg, answered |-> FALSE,
                                        response |-> Failure(UNDEFINED),
                                        origin |-> origin, awaited |-> awaited]))
    /\ http' = http + 1
    /\ UNCHANGED <<db, nextId, limit, settled>>

\* A dispatch on the store itself, with no component awaiting it.
Dispatch(op, arg) == DispatchFrom(op, arg, "store", FALSE)

\* The server answers request i, which it has not answered yet.
Respond(i, response) ==
    /\ ~inflight[i].answered
    /\ inflight' = [inflight EXCEPT
                        ![i] = TypedRequest([Request(i) EXCEPT !.answered = TRUE,
                                                               !.response = response])]
    /\ UNCHANGED <<tasks, loading, error, issued, limit, last, http, settled>>

\* GET /tasks
ServeFetch(i) ==
    /\ inflight[i].op = "fetchTasks"
    /\ Respond(i, Success(db))
    /\ UNCHANGED <<db, nextId>>

\* POST /tasks
ServeAdd(i) ==
    LET created == Task(nextId, Value(inflight[i].arg).title, Value(inflight[i].arg).description, FALSE)
    IN  /\ inflight[i].op = "addTask"
        /\ db' = Append(db, created)
        /\ nextId' = nextId + 1
        /\ Respond(i, Success(created))

\* PUT /tasks/{id}
ServeUpdate(i) ==
    LET id == Value(inflight[i].arg).id
        k == findIndex(db, id)
        updated == [db[k] EXCEPT !.title = Value(inflight[i].arg).taskData.title,
                                 !.description = Value(inflight[i].arg).taskData.description]
    IN  /\ inflight[i].op = "updateTask"
        /\ k # 0
        /\ db' = [db EXCEPT ![k] = updated]
        /\ Respond(i, Success(updated))
        /\ UNCHANGED nextId

\* PATCH /tasks/{id}/toggle
ServeToggle(i) ==
    LET id == Value(inflight[i].arg)
        k == findIndex(db, id)
        updated == [db[k] EXCEPT !.completed = ~db[k].completed]
    IN  /\ inflight[i].op = "toggleTask"
        /\ k # 0
        /\ db' = [db EXCEPT ![k] = updated]
        /\ Respond(i, Success(updated))
        /\ UNCHANGED nextId

\* DELETE /tasks/{id}
ServeDelete(i) ==
    LET id == Value(inflight[i].arg)
    IN  /\ inflight[i].op = "deleteTask"
        /\ id \in ServerIds
        /\ db' = filterOut(db, id)
        /\ Respond(i, Success(NULL))
        /\ UNCHANGED nextId

\* The request fails: no response, or an error response with or without a message.
Fail(i) ==
    /\ \E m \in FailureMessages : Respond(i, Failure(m))
    /\ UNCHANGED <<db, nextId>>

Requests == 1..Len(inflight)

\* Variant: a settled thunk stays in flight and settles again.
Remove_keeps(seq, i) == seq

Remove(seq, i) == SubSeq(seq, 1, i - 1) \o SubSeq(seq, i + 1, Len(seq))

\* The awaited axios call settles: the payload creator returns and the
\* fulfilled or rejected action is reduced.
Settle(i) ==
    LET r == Request(i)
        outcome == Outcome(r.op, r.arg, r.response)
    IN  /\ r.answered
        /\ Apply([type |-> outcome.type, op |-> r.op, arg |-> r.arg,
                  payload |-> outcome.payload, message |-> r.response.message])
        /\ inflight' = Remove(inflight, i)
        /\ settled' = settled + 1
        /\ UNCHANGED <<db, nextId, issued, limit, http>>

\* dispatch(clearError())
ClearError ==
    /\ Apply([type |-> "clearError", op |-> "clearError", arg |-> UNDEFINED,
              payload |-> UNDEFINED, message |-> UNDEFINED])
    /\ UNCHANGED <<inflight, db, nextId, issued, limit, http, settled>>

\* ---------------------------------------------------------------- view state
Whitespace == {" "}

\* String.prototype.trim: leading and trailing whitespace removed.
RECURSIVE trimStart(_)
trimStart(str) ==
    IF str # <<>> /\ Head(str) \in Whitespace THEN trimStart(Tail(str)) ELSE str

RECURSIVE trimEnd(_)
trimEnd(str) ==
    IF str # <<>> /\ str[Len(str)] \in Whitespace
    THEN trimEnd(SubSeq(str, 1, Len(str) - 1))
    ELSE str

\* Variant: only the leading whitespace is removed.
trim_startOnly(str) == trimStart(str)

trim(str) == trimEnd(trimStart(str))

\* Variant: the title is tested without trimming it.
titleMissing_untrimmed(title) == title = <<>>

\* Variant: the title is sent as typed.
taskData_rawTitle(title, description) ==
    [title |-> title, description |-> trim(description)]

\* !title.trim(): the empty string is falsy.
titleMissing(title) == trim(title) = <<>>

taskData(title, description) ==
    [title |-> trim(title), description |-> trim(description)]

\* What the user types into the title and description inputs.
TitleInputs == {Str(" "), <<" ", "x", " ">>}
DescriptionInputs == {<<" ", "d">>}

\* What the user types into the description in the composed views.
ViewDescriptionInputs == {Str(" ")}

\* useState(task ? task.title : '') and useState(task ? task.description : '').
FormFor(task) ==
    IF task = <<>> THEN [title |-> <<>>, description |-> <<>>]
    ELSE [title |-> task[1].title, description |-> task[1].description]

NoForm == [title |-> <<>>, description |-> <<>>]

\* Variant: closing hides the form and keeps the edit target.
Closed_keepsTarget == [app EXCEPT !.showTaskForm = FALSE]

Closed == [app EXCEPT !.showTaskForm = FALSE, !.editingTask = <<>>]

\* The identifiers of the item views mounted for a slice state: the rows of
\* the list view under a mounted root view, and the item rendered on its own.
MountedIds(state) ==
    (IF app.mounted /\ TaskList(state).view = "rows"
     THEN {state.tasks[i]._id : i \in 1..Len(state.tasks)} ELSE {})
    \cup {standalone[i]._id : i \in 1..Len(standalone)}

\* The tasks of the mounted item views.
MountedTasks ==
    (IF app.mounted /\ TaskList(SliceState).view = "rows"
     THEN {tasks[i] : i \in 1..Len(tasks)} ELSE {})
    \cup {standalone[i] : i \in 1..Len(standalone)}

Snapshot ==
    [slice |-> SliceState, app |-> app, form |-> form, deleting |-> deleting,
     issued |-> issued]

\* event records the handlers of the views that the claims are about; typing,
\* mounting, the banner and the completions nobody awaits clear it.
NoEvent ==
    [handler |-> "none", alert |-> FALSE, confirmed |-> FALSE, dispatched |-> <<>>,
     edited |-> <<>>, dismissed |-> 0, awaited |-> FALSE, before |-> [issued |-> 0]]

Handled(handler, alert, confirmed, dispatched, edited) ==
    event' = [handler |-> handler, alert |-> alert, confirmed |-> confirmed,
              dispatched |-> [k \in 1..Len(dispatched) |-> TypedCall(dispatched[k])],
              edited |-> edited, dismissed |-> 0,
              awaited |-> FALSE, before |-> Snapshot]

\* A handler of the root view's modal state ran: only the slice it ran on is kept.
Noted(handler, edited) ==
    event' = [handler |-> handler, alert |-> FALSE, confirmed |-> FALSE,
              dispatched |-> <<>>, edited |-> edited, dismissed |-> 0,
              awaited |-> FALSE, before |-> [slice |-> SliceState, issued |-> issued]]

\* ---------------------------------------------------------------- effects
\* Variant: the cleanup does not clear the timeout.
useErrorTimer_noCleanup(prev, next, timer) ==
    IF prev = next THEN timer
    ELSE IF Truthy(next) THEN <<next>> ELSE timer

\* Variant: a pending timeout is kept when error changes to another message.
useErrorTimer_keepsPending(prev, next, timer) ==
    IF prev = next THEN timer
    ELSE IF Truthy(next) THEN (IF timer # <<>> THEN timer ELSE <<next>>) ELSE <<>>

\* useEffect(..., [error, dispatch]): when error has changed between two
\* renders the cleanup clears the timeout and the effect sets a new one if
\* error is truthy. The timer is <<>> or <<the error it was set for>>.
useErrorTimer(prev, next, timer) ==
    IF prev = next THEN timer
    ELSE IF Truthy(next) THEN <<next>> ELSE <<>>

\* The root view a after it has rendered the store's next state.
Observe(a) ==
    LET timer == useErrorTimer(error, error', a.timer)
    IN  IF a.mounted
        THEN [a EXCEPT !.timer = timer,
                       !.overtaken = IF timer # <<>> /\ timer # a.timer THEN FALSE
                                     ELSE @ \/ (timer # <<>> /\ last'.type = "rejected")]
        ELSE a

\* dispatch(thunk(arg)) from a view, the root view being a.
ViewDispatch(a, op, arg, origin, awaited) ==
    /\ DispatchFrom(op, arg, origin, awaited)
    /\ app' = Observe([a EXCEPT !.fetches = @ + (IF op = "fetchTasks" THEN 1 ELSE 0)])

\* ---------------------------------------------------------------- root view
\* Variant: the mount effect dispatches nothing.
Mount_noFetch ==
    /\ ~app.mounted
    /\ app' = [app EXCEPT !.mounted = TRUE, !.mounts = @ + 1]
    /\ event' = NoEvent
    /\ UNCHANGED <<sliceVars, form, deleting, standalone>>

\* The root view is rendered: useState(false), useState(null); the first
\* effect dispatches fetchTasks, the second sets the timer for the error the
\* first render saw.
Mount ==
    /\ ~app.mounted
    /\ ViewDispatch([app EXCEPT !.mounted = TRUE, !.mounts = @ + 1,
                                !.showTaskForm = FALSE, !.editingTask = <<>>,
                                !.timer = useErrorTimer(NULL, error, <<>>),
                                !.overtaken = FALSE],
                    "fetchTasks", UNDEFINED, "App", TRUE)
    /\ event' = NoEvent
    /\ UNCHANGED <<form, deleting, standalone>>

\* The root view is unmounted: its state, the form and the rows are gone, the
\* effect cleanup clears the timeout, and nothing awaits the thunks in flight.
Unmount ==
    /\ app.mounted
    /\ app' = [app EXCEPT !.mounted = FALSE, !.showTaskForm = FALSE,
                          !.editingTask = <<>>, !.timer = <<>>, !.overtaken = FALSE]
    /\ form' = NoForm
    /\ deleting' = {}
    /\ inflight' = [i \in Requests |-> [inflight[i] EXCEPT !.awaited = FALSE]]
    /\ event' = NoEvent
    /\ UNCHANGED <<tasks, loading, error, db, nextId, issued, limit, last, http,
                   settled, standalone>>

\* Variant: the button is also disabled while an error is shown.
addTaskDisabled_onError(state) == state.loading \/ Truthy(state.error)

\* disabled={loading} of "+ Add New Task".
addTaskDisabled(state) == state.loading

handleAddTask ==
    /\ app.mounted
    /\ ~addTaskDisabled(SliceState)
    /\ app' = [app EXCEPT !.editingTask = <<>>, !.showTaskForm = TRUE]
    /\ form' = IF app.showTaskForm THEN form ELSE FormFor(<<>>)
    /\ Noted("handleAddTask", <<>>)
    /\ UNCHANGED <<sliceVars, deleting, standalone>>

\* Variant: the edit target is not recorded.
handleEditTask_noTarget(task) ==
    /\ app.mounted
    /\ task \in MountedTasks
    /\ app' = [app EXCEPT !.showTaskForm = TRUE]
    /\ form' = IF app.showTaskForm THEN form ELSE FormFor(<<task>>)
    /\ Noted("handleEditTask", <<task>>)
    /\ UNCHANGED <<sliceVars, deleting, standalone>>

\* onEdit of a row of the list view.
handleEditTask(task) ==
    /\ app.mounted
    /\ task \in MountedTasks
    /\ app' = [app EXCEPT !.editingTask = <<task>>, !.showTaskForm = TRUE]
    /\ form' = IF app.showTaskForm THEN form ELSE FormFor(<<task>>)
    /\ Noted("handleEditTask", <<task>>)
    /\ UNCHANGED <<sliceVars, deleting, standalone>>

\* The close button of the error banner.
DismissError ==
    /\ app.mounted
    /\ Truthy(error)
    /\ ClearError
    /\ app' = Observe(app)
    /\ event' = NoEvent
    /\ UNCHANGED <<form, deleting, standalone>>

\* The timeout set for the error elapses: dispatch(clearError()).
TimerFires ==
    /\ app.mounted
    /\ app.timer # <<>>
    /\ ClearError
    /\ app' = Observe(app)
    /\ Noted("timer", <<>>)
    /\ UNCHANGED <<form, deleting, standalone>>

\* ---------------------------------------------------------------- form view
setTitle(value) ==
    /\ app.showTaskForm
    /\ form.title # value
    /\ form' = [form EXCEPT !.title = value]
    /\ event' = NoEvent
    /\ UNCHANGED <<sliceVars, app, deleting, standalone>>

setDescription(value) ==
    /\ app.showTaskForm
    /\ form.description # value
    /\ form' = [form EXCEPT !.description = value]
    /\ event' = NoEvent
    /\ UNCHANGED <<sliceVars, app, deleting, standalone>>

\* Submit with a title that is empty after trimming: the alert, and return.
handleSubmit_alert ==
    /\ app.showTaskForm
    /\ titleMissing(form.title)
    /\ Handled("handleSubmit", TRUE, FALSE, <<>>, <<>>)
    /\ UNCHANGED <<sliceVars, app, form, deleting, standalone>>

\* Variant: a submit is ignored while a request of the form is in flight.
handleSubmit_dispatch_single ==
    LET data == taskData(form.title, form.description)
        op == IF app.editingTask # <<>> THEN "updateTask" ELSE "addTask"
        arg == IF app.editingTask # <<>>
               THEN [id |-> app.editingTask[1]._id, taskData |-> data]
               ELSE data
    IN  /\ app.showTaskForm
        /\ ~titleMissing(form.title)
        /\ \A i \in Requests : inflight[i].origin # "handleSubmit"
        /\ ViewDispatch(app, op, arg, "handleSubmit", TRUE)
        /\ Handled("handleSubmit", FALSE, FALSE, <<[op |-> op, arg |-> arg]>>, <<>>)
        /\ deleting' = deleting \cap MountedIds(SliceState')
        /\ UNCHANGED <<form, standalone>>

\* Submit with a title: updateTask for the supplied task, addTask otherwise.
handleSubmit_dispatch ==
    LET data == taskData(form.title, form.description)
        op == IF app.editingTask # <<>> THEN "updateTask" ELSE "addTask"
        arg == IF app.editingTask # <<>>
               THEN [id |-> app.editingTask[1]._id, taskData |-> data]
               ELSE data
    IN  /\ app.showTaskForm
        /\ ~titleMissing(form.title)
        /\ ViewDispatch(app, op, arg, "handleSubmit", TRUE)
        /\ Handled("handleSubmit", FALSE, FALSE, <<[op |-> op, arg |-> arg]>>, <<>>)
        /\ deleting' = deleting \cap MountedIds(SliceState')
        /\ UNCHANGED <<form, standalone>>

handleCancel ==
    /\ app.showTaskForm
    /\ app' = Closed
    /\ form' = NoForm
    /\ Noted("handleCancel", <<>>)
    /\ UNCHANGED <<sliceVars, deleting, standalone>>

\* ---------------------------------------------------------------- item view
handleToggle(task) ==
    /\ task \in MountedTasks
    /\ ViewDispatch(app, "toggleTask", task._id, "handleToggle",
                    task._id \in MountedIds(SliceState'))
    /\ deleting' = deleting \cap MountedIds(SliceState')
    /\ Handled("handleToggle", FALSE, FALSE,
               <<[op |-> "toggleTask", arg |-> task._id]>>, <<>>)
    /\ UNCHANGED <<form, standalone>>

\* Variant: the flag is not reset in the catch block.
isDeletingAfter_stuck(type, isDeleting) == isDeleting

\* isDeleting once the awaited deleteTask has settled.
isDeletingAfter(type, isDeleting) ==
    IF type = "rejected" THEN FALSE ELSE isDeleting

\* Delete clicked and window.confirm declined.
handleDelete_declined(task) ==
    /\ task \in MountedTasks
    /\ task._id \notin deleting
    /\ Handled("handleDelete", FALSE, FALSE, <<>>, <<>>)
    /\ UNCHANGED <<sliceVars, app, form, deleting, standalone>>

\* Delete clicked and window.confirm accepted.
handleDelete_confirmed(task) ==
    /\ task \in MountedTasks
    /\ task._id \notin deleting
    /\ ViewDispatch(app, "deleteTask", task._id, "handleDelete",
                    task._id \in MountedIds(SliceState'))
    /\ deleting' = (deleting \cup {task._id}) \cap MountedIds(SliceState')
    /\ Handled("handleDelete", FALSE, TRUE,
               <<[op |-> "deleteTask", arg |-> task._id]>>, <<>>)
    /\ UNCHANGED <<form, standalone>>

\* Variant: the edit button also resets the deleting flag.
onEdit_resetsDeleting(task) ==
    /\ ~app.mounted
    /\ task \in MountedTasks
    /\ Handled("onEdit", FALSE, FALSE, <<>>, <<task>>)
    /\ deleting' = {}
    /\ UNCHANGED <<sliceVars, app, form, standalone>>

\* The edit button of an item rendered on its own: onEdit(task).
onEdit(task) ==
    /\ ~app.mounted
    /\ task \in MountedTasks
    /\ Handled("onEdit", FALSE, FALSE, <<>>, <<task>>)
    /\ UNCHANGED <<sliceVars, app, form, deleting, standalone>>

\* ---------------------------------------------------------------- completion
\* Variant: onCancel is called whether the operation succeeded or not.
dismisses_always(origin, type) == origin = "handleSubmit"

\* handleSubmit after unwrap(): the fields are cleared and onCancel is called
\* when the operation is fulfilled; the catch block only logs.
dismisses(origin, type) == origin = "handleSubmit" /\ type = "fulfilled"

\* A thunk settles and the handler that awaited it resumes after unwrap().
SettleView(i) ==
    LET r == Request(i)
        type == Outcome(r.op, r.arg, r.response).type
        closes == dismisses(r.origin, type) /\ r.awaited
        flags == IF r.origin = "handleDelete" /\ r.awaited
                    /\ ~isDeletingAfter(type, r.arg \in deleting)
                 THEN deleting \ {r.arg} ELSE deleting
    IN  /\ Settle(i)
        /\ app' = Observe(IF closes THEN Closed ELSE app)
        /\ form' = IF closes THEN NoForm ELSE form
        /\ deleting' = flags \cap MountedIds(SliceState')
        /\ event' = IF r.origin = "handleSubmit"
                    THEN [handler |-> "handleSubmit.unwrap", alert |-> FALSE,
                          confirmed |-> FALSE, dispatched |-> <<>>, edited |-> <<>>,
                          dismissed |-> IF dismisses(r.origin, type) THEN 1 ELSE 0,
                          awaited |-> r.awaited,
                          before |-> IF type = "rejected" THEN Snapshot
                                     ELSE [issued |-> issued]]
                    ELSE NoEvent
        /\ UNCHANGED standalone

SliceInit ==
    /\ tasks = initialState.tasks
    /\ loading = initialState.loading
    /\ error = initialState.error
    /\ inflight = <<>>
    /\ db = InitialDb
    /\ nextId = 3
    /\ issued = 0
    /\ last = TypedAction(
                 [type |-> "init", op |-> "init", arg |-> UNDEFINED,
                  payload |-> UNDEFINED, message |-> UNDEFINED,
                  before |-> initialState, rejected |-> NULL, since |-> FALSE])
    /\ http = 0
    /\ settled = 0

ViewInit ==
    /\ app = [mounted |-> FALSE, showTaskForm |-> FALSE, editingTask |-> <<>>,
              mounts |-> 0, fetches |-> 0, timer |-> <<>>, overtaken |-> FALSE]
    /\ form = NoForm
    /\ deleting = {}
    /\ event = NoEvent

Init ==
    /\ SliceInit
    /\ ViewInit
    /\ standalone = <<>>
    /\ limit = MaxRequests

\* The store on its own: thunks dispatched directly.
Next ==
    \/ \E arg \in Args("fetchTasks") : Dispatch("fetchTasks", arg) /\ UNCHANGED viewVars
    \/ \E arg \in Args("addTask") : Dispatch("addTask", arg) /\ UNCHANGED viewVars
    \/ \E arg \in Args("updateTask") : Dispatch("updateTask", arg) /\ UNCHANGED viewVars
    \/ \E arg \in Args("toggleTask") : Dispatch("toggleTask", arg) /\ UNCHANGED viewVars
    \/ \E arg \in Args("deleteTask") : Dispatch("deleteTask", arg) /\ UNCHANGED viewVars
    \/ \E i \in Requests : ServeFetch(i) /\ UNCHANGED viewVars
    \/ \E i \in Requests : ServeAdd(i) /\ UNCHANGED viewVars
    \/ \E i \in Requests : ServeUpdate(i) /\ UNCHANGED viewVars
    \/ \E i \in Requests : ServeToggle(i) /\ UNCHANGED viewVars
    \/ \E i \in Requests : ServeDelete(i) /\ UNCHANGED viewVars
    \/ \E i \in Requests : Fail(i) /\ UNCHANGED viewVars
    \/ \E i \in Requests : Settle(i) /\ UNCHANGED viewVars
    \/ ClearError /\ UNCHANGED viewVars

Spec == Init /\ [][Next]_vars

\* The composed views: the root view with the list, the items and the form.
ViewNext ==
    \/ Mount
    \/ Unmount
    \/ TimerFires
    \/ handleAddTask
    \/ \E task \in MountedTasks : handleEditTask(task)
    \/ DismissError
    \/ \E value \in TitleInputs : setTitle(value)
    \/ \E value \in ViewDescriptionInputs : setDescription(value)
    \/ handleSubmit_alert
    \/ handleSubmit_dispatch
    \/ handleCancel
    \/ \E task \in MountedTasks : handleToggle(task)
    \/ \E task \in MountedTasks : handleDelete_declined(task)
    \/ \E task \in MountedTasks : handleDelete_confirmed(task)
    \/ \E i \in Requests : ServeFetch(i) /\ UNCHANGED viewVars
    \/ \E i \in Requests : ServeAdd(i) /\ UNCHANGED viewVars
    \/ \E i \in Requests : ServeUpdate(i) /\ UNCHANGED viewVars
    \/ \E i \in Requests : ServeToggle(i) /\ UNCHANGED viewVars
    \/ \E i \in Requests : ServeDelete(i) /\ UNCHANGED viewVars
    \/ \E i \in Requests : Fail(i) /\ UNCHANGED viewVars
    \/ \E i \in Requests : SettleView(i)

\* The root view before its first render, the store at initialState.
AppInit ==
    /\ SliceInit
    /\ ViewInit
    /\ standalone = <<>>
    /\ limit = MaxViewRequests

ViewSpec == AppInit /\ [][ViewNext]_vars

\* An item view rendered on its own for a task of the server, with the store.
ItemInit ==
    /\ SliceInit
    /\ ViewInit
    /\ standalone = <<InitialDb[1]>>
    /\ limit = MaxViewRequests

ItemNext ==
    \/ \E task \in MountedTasks : onEdit(task)
    \/ \E task \in MountedTasks : handleToggle(task)
    \/ \E task \in MountedTasks : handleDelete_declined(task)
    \/ \E task \in MountedTasks : handleDelete_confirmed(task)
    \/ \E i \in Requests : ServeToggle(i) /\ UNCHANGED viewVars
    \/ \E i \in Requests : ServeDelete(i) /\ UNCHANGED viewVars
    \/ \E i \in Requests : Fail(i) /\ UNCHANGED viewVars
    \/ \E i \in Requests : SettleView(i)

ItemSpec == ItemInit /\ [][ItemNext]_vars

\* A form rendered on its own with the store, without a task or for a task of
\* the server; its caller hides it when the dismiss callback is called.
FormInit ==
    /\ SliceInit
    /\ \E task \in {<<>>, <<InitialDb[1]>>} :
          /\ app = [mounted |-> FALSE, showTaskForm |-> TRUE, editingTask |-> task,
                    mounts |-> 0, fetches |-> 0, timer |-> <<>>, overtaken |-> FALSE]
          /\ form = FormFor(task)
    /\ deleting = {}
    /\ standalone = <<>>
    /\ event = NoEvent
    /\ limit = MaxViewRequests

FormNext ==
    \/ \E value \in TitleInputs : setTitle(value)
    \/ \E value \in DescriptionInputs : setDescription(value)
    \/ handleSubmit_alert
    \/ handleSubmit_dispatch
    \/ handleCancel
    \/ \E i \in Requests : ServeAdd(i) /\ UNCHANGED viewVars
    \/ \E i \in Requests : ServeUpdate(i) /\ UNCHANGED viewVars
    \/ \E i \in Requests : Fail(i) /\ UNCHANGED viewVars
    \/ \E i \in Requests : SettleView(i)

FormSpec == FormInit /\ [][FormNext]_vars

\* The composed views once the mount fetch has been applied, on a server that
\* holds one task: the list shows its row, nothing is in flight.
LoadedDb == <<InitialDb[1]>>

LoadedState ==
    /\ tasks = LoadedDb
    /\ loading = FALSE
    /\ error = NULL
    /\ inflight = <<>>
    /\ db = LoadedDb
    /\ nextId = 3
    /\ issued = 1
    /\ last = TypedAction(
                 [type |-> "fulfilled", op |-> "fetchTasks", arg |-> UNDEFINED,
                  payload |-> LoadedDb, message |-> UNDEFINED,
                  before |-> fetchTasks_pending(initialState),
                  rejected |-> NULL, since |-> TRUE])
    /\ http = 1
    /\ settled = 1
    /\ app = [mounted |-> TRUE, showTaskForm |-> FALSE, editingTask |-> <<>>,
              mounts |-> 1, fetches |-> 1, timer |-> <<>>, overtaken |-> FALSE]
    /\ form = NoForm
    /\ deleting = {}
    /\ standalone = <<>>
    /\ event = NoEvent

LoadedInit == LoadedState /\ limit = MaxLoadedRequests

\* Edits, toggles and deletes of the row, the banner and its timer, and the
\* root view unmounted and rendered again.
LoadedNext ==
    \/ Mount
    \/ Unmount
    \/ TimerFires
    \/ \E task \in MountedTasks : handleEditTask(task)
    \/ DismissError
    \/ handleSubmit_dispatch
    \/ \E task \in MountedTasks : handleToggle(task)
    \/ \E task \in MountedTasks : handleDelete_confirmed(task)
    \/ \E i \in Requests : ServeFetch(i) /\ UNCHANGED viewVars
    \/ \E i \in Requests : ServeUpdate(i) /\ UNCHANGED viewVars
    \/ \E i \in Requests : ServeToggle(i) /\ UNCHANGED viewVars
    \/ \E i \in Requests : ServeDelete(i) /\ UNCHANGED viewVars
    \/ \E i \in Requests : Fail(i) /\ UNCHANGED viewVars
    \/ \E i \in Requests : SettleView(i)

LoadedSpec == LoadedInit /\ [][LoadedNext]_vars

\* The same views where every request issued completes and a timeout that
\* stays set fires.
LiveInit == LoadedState /\ limit = MaxLiveRequests

\* The server answers a request in flight, or the call fails.
Answers ==
    \E i \in Requests :
        /\ ServeFetch(i) \/ ServeUpdate(i) \/ ServeToggle(i) \/ ServeDelete(i) \/ Fail(i)
        /\ UNCHANGED viewVars

\* The thunk of an answered request dispatches its fulfilled or rejected
\* action: the steps of SettleView, which is enabled for every answered request
\* and is the one action that counts in settled.
Settles == \E i \in Requests : inflight[i].answered /\ settled' = settled + 1

\* axios settles every call and the event loop runs every callback that is
\* due: the promise continuations and the timeout that is set.
LiveSpec ==
    /\ LiveInit
    /\ [][LoadedNext]_vars
    /\ WF_vars(Answers)
    /\ WF_settled(Settles)
    /\ WF_vars(TimerFires)

\* ---------------------------------------------------------------- claims
Pending == last.type = "pending"
Completed == last.type \in {"fulfilled", "rejected"}
FulfilledOf(op) == last.type = "fulfilled" /\ last.op = op
Before == last.before

\* The identifiers of a list, and the number of its entries with identifier id.
IdsOf(list) == {list[i]._id : i \in 1..Len(list)}
Count(list, id) == Cardinality({i \in 1..Len(list) : list[i]._id = id})

\* C1: right after the pending action of any of the five thunks, error is
\* null, whatever it was before and whatever else is in flight.
C1_PendingClearsError == Pending => error = NULL

\* C1 witness: a pending action has cleared an error while another thunk was
\* in flight.
C1_Witness ==
    /\ Pending
    /\ Before.error # NULL
    /\ Len(inflight) >= 2
    /\ error = NULL

\* C2: loading = true implies that some thunk is in flight.
C2_LoadingImpliesInFlight == loading => Len(inflight) >= 1

\* C2 witness: loading is true while a thunk is in flight, after an earlier
\* thunk has completed.
C2_Witness == loading /\ Len(inflight) = 1 /\ issued >= 2

\* C3: every completion, fulfilled or rejected, sets loading to false without
\* counting the thunks still outstanding.
C3_CompletionResetsLoading == Completed => loading = FALSE

\* C3 witness: two thunks overlapped, the first has completed and loading is
\* false while the other is still in flight.
C3_Witness == Completed /\ ~loading /\ Len(inflight) >= 1

\* C4: fetchTasks fulfilled with the server's array A makes the list exactly
\* A, in A's order, and sets loading to false.
C4_FetchReplacesList ==
    FulfilledOf("fetchTasks") => tasks = Value(last.payload) /\ loading = FALSE

\* C4 witness: a fulfilled fetch has discarded an entry that was in the list.
C4_Witness ==
    /\ FulfilledOf("fetchTasks")
    /\ tasks = Value(last.payload)
    /\ \E i \in 1..Len(Before.tasks) :
          \A j \in 1..Len(tasks) : tasks[j] # Before.tasks[i]

\* C5: addTask fulfilled with record r turns list L into r followed by L, so
\* the first element is the task of the create fulfilled last.
C5_AddPrepends ==
    FulfilledOf("addTask") =>
        /\ Len(tasks) = Len(Before.tasks) + 1
        /\ tasks[1] = Value(last.payload)
        /\ \A i \in 1..Len(Before.tasks) : tasks[i + 1] = Before.tasks[i]

\* C5 witness: a second create has been fulfilled, in front of the first.
C5_Witness ==
    /\ FulfilledOf("addTask")
    /\ Len(tasks) >= 2
    /\ tasks[1] = Value(last.payload)
    /\ tasks[2]._id >= 3
    /\ tasks[1]._id # tasks[2]._id

UpdateOrToggleFulfilled == FulfilledOf("updateTask") \/ FulfilledOf("toggleTask")

\* C6: updateTask / toggleTask fulfilled with a record whose identifier is in
\* the list replaces that entry at its position; the length and every other
\* entry are unchanged.
C6_UpdateReplacesInPlace ==
    (UpdateOrToggleFulfilled /\ Value(last.payload)._id \in IdsOf(Before.tasks)) =>
        /\ Len(tasks) = Len(Before.tasks)
        /\ \E k \in 1..Len(tasks) :
              /\ Before.tasks[k]._id = Value(last.payload)._id
              /\ tasks[k] = Value(last.payload)
              /\ \A j \in 1..Len(tasks) : j # k => tasks[j] = Before.tasks[j]

\* C6 witness: an entry that is not the first of a list of two or more has
\* been replaced by a different record.
C6_Witness ==
    /\ UpdateOrToggleFulfilled
    /\ Len(tasks) >= 2
    /\ \E k \in 2..Len(tasks) :
          /\ tasks[k] = Value(last.payload)
          /\ Before.tasks[k] # Value(last.payload)
          /\ Before.tasks[k]._id = Value(last.payload)._id

\* C7: updateTask / toggleTask fulfilled with a record whose identifier is not
\* in the list leaves the list unchanged.
C7_UpdateAbsentIsNoOp ==
    (UpdateOrToggleFulfilled /\ Value(last.payload)._id \notin IdsOf(Before.tasks)) =>
        tasks = Before.tasks

\* C7 witness: a fulfilled update or toggle arrived for a task that is no
\* longer in a non-empty list.
C7_Witness ==
    /\ UpdateOrToggleFulfilled
    /\ Value(last.payload)._id \notin IdsOf(Before.tasks)
    /\ Before.tasks # <<>>
    /\ tasks = Before.tasks

\* C8 as stated: deleteTask fulfilled removes exactly one entry, the one
\* whose identifier is the dispatched argument, and keeps the rest in order.
C8_DeleteRemovesExactlyOne ==
    FulfilledOf("deleteTask") =>
        \E k \in 1..Len(Before.tasks) :
            /\ Before.tasks[k]._id = Value(last.arg)
            /\ tasks = SubSeq(Before.tasks, 1, k - 1)
                       \o SubSeq(Before.tasks, k + 1, Len(Before.tasks))

\* C8 amended: deleteTask fulfilled removes every entry whose identifier is
\* the dispatched argument (one entry when one has it, none when none has)
\* and keeps the remaining entries in their order.
C8_DeleteRemovesMatching ==
    FulfilledOf("deleteTask") =>
        /\ Value(last.payload) = Value(last.arg)
        /\ tasks = SelectSeq(Before.tasks, LAMBDA t : t._id # Value(last.arg))
        /\ Len(tasks) = Len(Before.tasks) - Count(Before.tasks, Value(last.arg))

\* C8 witness: a fulfilled delete has removed the one entry with the
\* dispatched identifier from between two others.
C8_Witness ==
    /\ FulfilledOf("deleteTask")
    /\ Count(Before.tasks, Value(last.arg)) = 1
    /\ Len(tasks) = Len(Before.tasks) - 1
    /\ \E k \in 2..Len(tasks) :
          /\ Before.tasks[k]._id = Value(last.arg)
          /\ tasks[k - 1] = Before.tasks[k - 1]
          /\ tasks[k] = Before.tasks[k + 1]

\* C9: a rejected action of any of the five thunks leaves the list as it was
\* and stores the rejection's message in error.
C9_RejectedKeepsList ==
    last.type = "rejected" =>
        /\ tasks = Before.tasks
        /\ error = Value(last.payload)
        /\ error # NULL

\* C9 witness: a thunk was rejected with a non-empty list.
C9_Witness ==
    /\ last.type = "rejected"
    /\ Before.tasks # <<>>
    /\ tasks = Before.tasks
    /\ error = Value(last.payload)

\* C10: clearError sets error to null and changes neither the list nor
\* loading; with error already null it changes nothing, and twice is once.
C10_ClearErrorIdempotent ==
    last.type = "clearError" =>
        /\ error = NULL
        /\ tasks = Before.tasks
        /\ loading = Before.loading
        /\ (Before.error = NULL => SliceState = Before)
        /\ clearError(SliceState) = SliceState

\* C10 witness: clearError has cleared an error while the list was not empty
\* and a thunk was in flight.
C10_Witness ==
    /\ last.type = "clearError"
    /\ Before.error # NULL
    /\ Before.tasks # <<>>
    /\ Len(inflight) >= 1
    /\ error = NULL
    /\ tasks = Before.tasks

\* The fixed default message of each thunk.
DefaultMessage(op) ==
    CASE op = "fetchTasks" -> "Failed to fetch tasks"
      [] op = "addTask" -> "Failed to add task"
      [] op = "updateTask" -> "Failed to update task"
      [] op = "toggleTask" -> "Failed to toggle task"
      [] op = "deleteTask" -> "Failed to delete task"

IsRejected == last.type = "rejected"

\* C11 as stated: the rejected payload is the response's message field if the
\* field is present, and the thunk's default string otherwise.
C11_MessageIfPresent ==
    IsRejected =>
        Value(last.payload) = IF last.message # UNDEFINED THEN last.message
                       ELSE DefaultMessage(last.op)

\* C11 amended: the rejected payload is the response's message field if the
\* field is present and not empty, and the thunk's default string otherwise.
C11_MessageIfNonEmpty ==
    IsRejected =>
        Value(last.payload) = IF last.message \notin {UNDEFINED, ""} THEN last.message
                       ELSE DefaultMessage(last.op)

\* C11 witness: a create was rejected with server message "Validation error",
\* which is now the error.
C11_Witness ==
    /\ IsRejected
    /\ last.op = "addTask"
    /\ last.message = "Validation error"
    /\ error = "Validation error"

\* C12: no two entries of the local list have the same identifier.
C12_UniqueIds ==
    \A i \in 1..Len(tasks) : \A j \in 1..Len(tasks) :
        tasks[i]._id = tasks[j]._id => i = j

\* C14: every dispatch makes exactly one HTTP request, and every dispatched
\* thunk is either in flight (pending reduced, nothing else) or has been
\* settled by exactly one fulfilled or rejected action.
C14_OneRequestOneOutcome ==
    /\ http = issued
    /\ settled + Len(inflight) = issued
    /\ (last.type \in {"fulfilled", "rejected"} => settled >= 1)

\* C14 witness: a request failed and was rejected without another request
\* being made for it.
C14_Witness ==
    /\ IsRejected
    /\ issued = 2
    /\ http = 2
    /\ settled = 2
    /\ inflight = <<>>

\* A string that carries a message.
IsMessage(m) == m \in {"Validation error"} \cup
    {DefaultMessage(op) : op \in {"fetchTasks", "addTask", "updateTask",
                                  "toggleTask", "deleteTask"}}

\* C15: a failed request always ends in a rejected action whose payload is a
\* message string, and after it error holds that string.
C15_FailureIsRejectedString ==
    /\ \A i \in 1..Len(inflight) :
          (inflight[i].answered /\ ~inflight[i].response.ok) =>
              LET o == Outcome(inflight[i].op, Request(i).arg, Request(i).response)
              IN  o.type = "rejected" /\ IsMessage(o.payload)
    /\ IsRejected => (IsMessage(Value(last.payload)) /\ error = Value(last.payload))

\* C15 witness: a request that got no message was rejected with the default
\* string of its thunk.
C15_Witness ==
    /\ IsRejected
    /\ last.message = UNDEFINED
    /\ error = DefaultMessage(last.op)
    /\ last.op = "toggleTask"

Rendered == TaskList(SliceState)

\* C16: the list view renders the spinner if loading, else the error text if
\* error is non-empty, else the empty-state message if the list is empty,
\* else the task rows.
C16_RenderPriority ==
    /\ loading => Rendered.view = "loading"
    /\ (~loading /\ error # NULL) =>
          (Rendered.view = "error" /\ Rendered.text = <<"Error: ", error>>)
    /\ (~loading /\ error = NULL /\ tasks = <<>>) =>
          /\ Rendered.view = "empty"
          /\ Rendered.text = <<"No tasks yet", "Add your first task to get started!">>
    /\ (~loading /\ error = NULL /\ tasks # <<>>) => Rendered.view = "rows"
    /\ Rendered.view # "rows" => Rendered.sections = <<>>

\* C16 witness: with an error and an empty list the error text is rendered,
\* not the empty state.
C16_Witness ==
    /\ ~loading
    /\ error # NULL
    /\ tasks = <<>>
    /\ Rendered.view = "error"

\* sub is list with some entries left out, order kept.
RECURSIVE IsSubsequence(_, _)
IsSubsequence(sub, list) ==
    IF sub = <<>> THEN TRUE
    ELSE IF list = <<>> THEN FALSE
    ELSE IF Head(sub) = Head(list) THEN IsSubsequence(Tail(sub), Tail(list))
    ELSE IsSubsequence(sub, Tail(list))

\* C17: pending and completed groups partition the list: sizes add up to the
\* length, each group keeps list order and holds only tasks of its kind, the
\* header counts are the group sizes, and a section is rendered for every
\* non-empty group only, with the group size as its count.
C17_PartitionExact ==
    LET p == pendingTasks(tasks)
        c == completedTasks(tasks)
        stats == TaskStats(SliceState)
        shown == {Rendered.sections[i].title : i \in 1..Len(Rendered.sections)}
    IN  /\ Len(p) + Len(c) = Len(tasks)
        /\ \A i \in 1..Len(p) : ~p[i].completed
        /\ \A i \in 1..Len(c) : c[i].completed
        /\ IsSubsequence(p, tasks) /\ IsSubsequence(c, tasks)
        /\ stats.pending = Len(p) /\ stats.completed = Len(c)
        /\ stats.total = stats.pending + stats.completed
        /\ Rendered.view = "rows" =>
              /\ ("Pending Tasks" \in shown) = (Len(p) > 0)
              /\ ("Completed Tasks" \in shown) = (Len(c) > 0)
              /\ \A i \in 1..Len(Rendered.sections) :
                    LET sec == Rendered.sections[i]
                    IN  /\ sec.count = Len(sec.rows)
                        /\ sec.count > 0
                        /\ sec.rows = IF sec.title = "Pending Tasks" THEN p ELSE c

\* C17 witness: three tasks, two incomplete and one complete, rendered as
\* "Pending Tasks (2)" and "Completed Tasks (1)".
C17_Witness ==
    /\ Len(tasks) = 3
    /\ Rendered.view = "rows"
    /\ Len(Rendered.sections) = 2
    /\ Rendered.sections[1].title = "Pending Tasks"
    /\ Rendered.sections[1].count = 2
    /\ Rendered.sections[2].title = "Completed Tasks"
    /\ Rendered.sections[2].count = 1

\* ---------------------------------------------------------------- view claims
\* A string that is empty or only whitespace.
Blank(str) == \A i \in 1..Len(str) : str[i] \in Whitespace

\* A non-empty string with no leading and no trailing whitespace.
HasTitle(str) ==
    /\ str # <<>>
    /\ str[1] \notin Whitespace
    /\ str[Len(str)] \notin Whitespace

\* short is str without its leading and trailing whitespace.
IsTrimOf(short, str) ==
    /\ short = <<>> \/ (short[1] \notin Whitespace /\ short[Len(short)] \notin Whitespace)
    /\ \E lead \in 0..Len(str) :
          /\ lead + Len(short) <= Len(str)
          /\ SubSeq(str, lead + 1, lead + Len(short)) = short
          /\ \A i \in 1..Len(str) :
                (i <= lead \/ i > lead + Len(short)) => str[i] \in Whitespace

\* The task data a create or update request carries.
DataOf(op, arg) == IF op = "updateTask" THEN arg.taskData ELSE arg

\* C13: every create and update request issued by the form carries a title
\* that is non-empty and has no leading or trailing whitespace, and (the
\* server persisting titles as submitted, the initial collection having
\* non-empty titles) every task of the local list has a non-empty title.
C13_TitlesNonEmpty ==
    /\ \A i \in Requests :
          inflight[i].origin = "handleSubmit"
              => HasTitle(DataOf(inflight[i].op, Value(inflight[i].arg)).title)
    /\ \A i \in 1..Len(tasks) : tasks[i].title # <<>>

\* A task created or renamed through the form from a padded title is listed.
C13_Witness ==
    /\ app.mounted
    /\ \E i \in 1..Len(tasks) : tasks[i].title = Str("x")

\* C18: in the item view a declined confirmation dispatches nothing and
\* leaves the item enabled; a confirmed one dispatches deleteTask(id) with the
\* delete affordance disabled, which stays disabled while the delete is
\* outstanding and is enabled again once the delete is rejected.
C18_DeleteConfirmGate ==
    /\ (event.handler = "handleDelete" /\ ~event.confirmed) =>
          /\ event.dispatched = <<>>
          /\ issued = event.before.issued
          /\ SliceState = event.before.slice
          /\ deleting = event.before.deleting
          /\ \A i \in 1..Len(standalone) : standalone[i]._id \notin deleting
    /\ (event.handler = "handleDelete" /\ event.confirmed) =>
          /\ Len(event.dispatched) = 1
          /\ event.dispatched[1].op = "deleteTask"
          /\ \A i \in 1..Len(standalone) : Value(event.dispatched[1].arg) = standalone[i]._id
          /\ issued = event.before.issued + 1
          /\ Value(event.dispatched[1].arg) \in deleting
    /\ \A i \in Requests :
          inflight[i].origin = "handleDelete" => Value(inflight[i].arg) \in deleting
    /\ (IsRejected /\ last.op = "deleteTask") => Value(last.arg) \notin deleting

\* A confirmed delete of the item was rejected and the item is enabled again.
C18_Witness ==
    /\ standalone # <<>>
    /\ IsRejected
    /\ last.op = "deleteTask"
    /\ Value(last.arg) = standalone[1]._id
    /\ Value(last.arg) \notin deleting
    /\ inflight = <<>>

C20_SubmitDispatchesOne ==
    (event.handler = "handleSubmit" /\ ~Blank(event.before.form.title)) =>
        LET supplied == event.before.app.editingTask
            sent == event.dispatched
        IN  /\ ~event.alert
            /\ Len(sent) = 1
            /\ issued = event.before.issued + 1
            /\ sent[1].op = IF supplied # <<>> THEN "updateTask" ELSE "addTask"
            /\ supplied # <<>> => Value(sent[1].arg).id = supplied[1]._id
            /\ IsTrimOf(DataOf(sent[1].op, Value(sent[1].arg)).title,
                        event.before.form.title)
            /\ IsTrimOf(DataOf(sent[1].op, Value(sent[1].arg)).description,
                        event.before.form.description)
            /\ last.type = "pending"
            /\ last.op = sent[1].op
            /\ Value(last.arg) = Value(sent[1].arg)

\* An update was submitted from padded fields for the task being edited.
C20_Witness ==
    /\ event.handler = "handleSubmit"
    /\ event.before.app.editingTask # <<>>
    /\ event.before.form.title = <<" ", "x", " ">>
    /\ event.before.form.description = <<" ", "d">>
    /\ Len(event.dispatched) = 1
    /\ event.dispatched[1].op = "updateTask"

\* An add was submitted from a padded title with no task supplied.
C20_WitnessAdd ==
    /\ event.handler = "handleSubmit"
    /\ event.before.app.editingTask = <<>>
    /\ event.before.form.title = <<" ", "x", " ">>
    /\ Len(event.dispatched) = 1
    /\ event.dispatched[1].op = "addTask"

\* ---------------------------------------------------------------- slice claims
\* C27: the task list is changed only by the completion handlers of the five
\* operations: every pending action and clearError leave it unchanged.
C27_OnlyCompletionsChangeList ==
    (Pending \/ last.type = "clearError") => tasks = Before.tasks

\* A pending action and clearError were applied to a list that is not empty.
C27_Witness ==
    /\ Pending
    /\ last.op = "fetchTasks"
    /\ Len(Before.tasks) > 0
    /\ tasks = Before.tasks

\* C28: last response wins. When an update or toggle of a listed task is
\* fulfilled, the list's entry for the task is the record that fulfilled
\* action carries, whatever the server holds and whatever was applied before.
C28_LastResponseWins ==
    UpdateOrToggleFulfilled =>
        LET index == findIndex(Before.tasks, Value(last.payload)._id)
        IN  index # 0 =>
               /\ Len(tasks) = Len(Before.tasks)
               /\ tasks[index] = Value(last.payload)
               /\ \A i \in 1..Len(tasks) : i # index => tasks[i] = Before.tasks[i]

\* Two operations on one task overlapped and were applied in the opposite
\* order to the server's: all three requests have settled, the one applied
\* last was served first, so the list's entry is not the server's record.
C28_Witness ==
    /\ UpdateOrToggleFulfilled
    /\ inflight = <<>>
    /\ settled >= 2
    /\ LET index == findIndex(tasks, Value(last.payload)._id)
           k == findIndex(db, Value(last.payload)._id)
       IN  /\ index # 0
           /\ k # 0
           /\ tasks[index] = Value(last.payload)
           /\ db[k] # Value(last.payload)

\* C29: a toggle and a delete of one task in flight together can be applied
\* in the opposite order to the server's. Where the delete is applied while
\* the toggle's successful response is still in flight, the server handled
\* the toggle first, the task is gone from the server and from the list, and
\* the response still to be applied carries the deleted task.
C29_ToggleDeleteOutOfOrder ==
    \A i \in Requests :
        (/\ FulfilledOf("deleteTask")
         /\ inflight[i].op = "toggleTask"
         /\ Value(inflight[i].arg) = Value(last.arg)
         /\ inflight[i].answered
         /\ inflight[i].response.ok)
        => /\ Value(last.arg) \notin IdsOf(tasks)
           /\ Value(last.arg) \notin ServerIds
           /\ Value(inflight[i].response.data)._id = Value(last.arg)

\* The delete has been applied with the toggle's response still in flight.
C29_Witness ==
    /\ FulfilledOf("deleteTask")
    /\ Value(last.arg) \in IdsOf(Before.tasks)
    /\ \E i \in Requests :
          /\ inflight[i].op = "toggleTask"
          /\ Value(inflight[i].arg) = Value(last.arg)
          /\ inflight[i].answered
          /\ inflight[i].response.ok

\* The toggle's response is then applied to a list without the task.
C29_WitnessApplied ==
    /\ FulfilledOf("toggleTask")
    /\ Value(last.arg) \notin ServerIds
    /\ Value(last.arg) \notin IdsOf(Before.tasks)
    /\ tasks = Before.tasks

\* C30: error is null or the message of the rejected action applied most
\* recently, and it is non-null only if neither a pending action nor
\* clearError has been applied since that rejected action.
C30_ErrorIsLastRejection ==
    error # NULL => (error = last.rejected /\ ~last.since)

\* The error outlives a fulfilled action applied after the rejected one.
C30_Witness ==
    /\ error # NULL
    /\ last.type = "fulfilled"
    /\ error = last.rejected

\* C31: a task removed from the list stays absent until a fetchTasks fulfilled
\* or an addTask fulfilled brings a record with its identifier: an identifier
\* enters the list only through those two actions, so an updateTask or
\* toggleTask fulfilled that arrives after the delete does not re-insert it.
C31_DeletedStaysAbsent ==
    \A id \in IdsOf(tasks) \ IdsOf(Before.tasks) :
        \/ FulfilledOf("fetchTasks") /\ id \in IdsOf(Value(last.payload))
        \/ FulfilledOf("addTask") /\ id = Value(last.payload)._id

\* An update of a task was served, the task was then deleted on the server
\* and the delete applied to the list, and the update's response is applied
\* last: the task is absent before and after.
C31_Witness ==
    /\ FulfilledOf("updateTask")
    /\ Value(last.payload)._id = Value(last.arg).id
    /\ Value(last.arg).id \notin ServerIds
    /\ Value(last.arg).id \notin IdsOf(Before.tasks)
    /\ Value(last.arg).id \notin IdsOf(tasks)
    /\ settled >= 2

\* ---------------------------------------------------------------- root view claims
\* C21: when the operation a form submit dispatched is fulfilled, the form
\* clears both fields and calls the dismiss callback once, so the root view
\* that rendered it hides the form and clears the edit target; when it is
\* rejected the callback is not called, the fields keep their values and the
\* form stays as it was, open for a retry.
C21_SubmitCompletion ==
    event.handler = "handleSubmit.unwrap" =>
        /\ Completed
        /\ last.op \in {"addTask", "updateTask"}
        /\ last.type = "fulfilled" =>
              /\ event.dismissed = 1
              /\ event.awaited =>
                    /\ form = NoForm
                    /\ ~app.showTaskForm
                    /\ app.editingTask = <<>>
        /\ last.type = "rejected" =>
              /\ event.dismissed = 0
              /\ form = event.before.form
              /\ app.showTaskForm = event.before.app.showTaskForm
              /\ app.editingTask = event.before.app.editingTask

\* A submit was rejected: the form is still open with the submitted title.
C21_Witness ==
    /\ event.handler = "handleSubmit.unwrap"
    /\ last.type = "rejected"
    /\ event.awaited
    /\ app.showTaskForm
    /\ form.title = <<" ", "x", " ">>

\* A submit was fulfilled and the root view closed the form.
C21_WitnessFulfilled ==
    /\ event.handler = "handleSubmit.unwrap"
    /\ last.type = "fulfilled"
    /\ event.awaited
    /\ app.mounted
    /\ ~app.showTaskForm

\* C22: the root view dispatches fetchTasks once per mount, on mount, and
\* never again while it stays mounted: the fetches dispatched are as many as
\* the mounts, and every fetch in flight was dispatched by the mount effect.
C22_FetchOncePerMount ==
    /\ app.fetches = app.mounts
    /\ \A i \in Requests :
          inflight[i].op = "fetchTasks" => inflight[i].origin = "App"

\* One mount, its fetch and a form submit settled, and no second fetch.
C22_Witness ==
    /\ app.mounted
    /\ app.mounts = 1
    /\ app.fetches = 1
    /\ event.handler = "handleSubmit.unwrap"

\* The root view was mounted a second time.
C22_WitnessRemount ==
    /\ app.mounted
    /\ app.mounts = 2
    /\ app.fetches = 2

\* C23: while the root view is mounted a timer is pending for every non-empty
\* error; a pending timer belongs to the mounted view and to the current
\* error value, so a change of error or an unmount cancels it; and when the
\* timer fires clearError is dispatched and error is null.
C23_ErrorTimer ==
    /\ (app.mounted /\ Truthy(error)) => app.timer = <<error>>
    /\ app.timer # <<>> => (app.mounted /\ app.timer = <<error>>)
    /\ event.handler = "timer" =>
          /\ last.type = "clearError"
          /\ Truthy(event.before.slice.error)
          /\ error = NULL
          /\ app.timer = <<>>

\* The timer fired and cleared the error.
C23_Witness ==
    /\ event.handler = "timer"
    /\ error = NULL
    /\ app.mounted

\* A pending timer was cancelled by a new operation clearing the error.
C23_WitnessCancelled ==
    /\ app.mounted
    /\ Pending
    /\ Truthy(Before.error)
    /\ app.timer = <<>>

\* C24: opening "add" shows the form with no edit target, opening "edit" on a
\* task shows it with that task as the edit target, and closing (cancel, or a
\* successful submit) hides it and clears the edit target; the three handlers
\* leave the slice state as it was.
C24_ModalState ==
    /\ event.handler = "handleAddTask" =>
          /\ app.showTaskForm
          /\ app.editingTask = <<>>
          /\ SliceState = event.before.slice
          /\ issued = event.before.issued
    /\ event.handler = "handleEditTask" =>
          /\ app.showTaskForm
          /\ event.edited # <<>>
          /\ app.editingTask = event.edited
          /\ SliceState = event.before.slice
          /\ issued = event.before.issued
    /\ event.handler = "handleCancel" =>
          /\ ~app.showTaskForm
          /\ app.editingTask = <<>>
          /\ SliceState = event.before.slice
          /\ issued = event.before.issued
    /\ (event.handler = "handleSubmit.unwrap" /\ last.type = "fulfilled"
        /\ event.awaited) =>
          /\ ~app.showTaskForm
          /\ app.editingTask = <<>>

\* The form was opened for the second task of the list.
C24_Witness ==
    /\ event.handler = "handleEditTask"
    /\ Len(tasks) >= 2
    /\ app.editingTask = <<tasks[2]>>

\* The form was cancelled.
C24_WitnessCancel ==
    /\ event.handler = "handleCancel"
    /\ app.mounted
    /\ ~app.showTaskForm

\* C25: in the mounted root view "add task" is disabled exactly when loading
\* is true, and loading gates neither the form submit nor the dismissal of
\* the error banner.
C25_OnlyAddGatedByLoading ==
    /\ app.mounted => (addTaskDisabled(SliceState) <=> loading)
    /\ (ENABLED handleAddTask) <=> (app.mounted /\ ~loading)
    /\ event.handler = "handleAddTask" => ~event.before.slice.loading
    /\ (app.showTaskForm /\ titleMissing(form.title)) => ENABLED handleSubmit_alert
    /\ (app.showTaskForm /\ ~titleMissing(form.title) /\ issued < limit)
          => ENABLED handleSubmit_dispatch
    /\ (app.mounted /\ Truthy(error)) => ENABLED DismissError

\* The form was submitted while loading was true.
C25_Witness ==
    /\ app.mounted
    /\ loading
    /\ event.handler = "handleSubmit"
    /\ event.before.slice.loading

\* C26: the edit button of the item view calls the callback with the item's
\* task and does nothing else: nothing is dispatched, and the slice state and
\* the item's deleting flag are as they were.
C26_EditOnlyCallsBack ==
    event.handler = "onEdit" =>
        /\ event.edited = standalone
        /\ event.dispatched = <<>>
        /\ issued = event.before.issued
        /\ SliceState = event.before.slice
        /\ deleting = event.before.deleting

\* Edit was clicked while the item's delete was outstanding.
C26_Witness ==
    /\ event.handler = "onEdit"
    /\ event.edited # <<>>
    /\ deleting # {}
    /\ inflight # <<>>


\* ---------------------------------------------------------------- composed view claims
\* C35: in every state of the root view a non-empty edit target implies that
\* the form is visible; whenever the form is hidden the edit target is none.
C35_EditTargetImpliesForm ==
    /\ app.editingTask # <<>> => app.showTaskForm
    /\ ~app.showTaskForm => app.editingTask = <<>>

\* The form is open on an edit target whose update has been submitted.
C35_Witness ==
    /\ app.mounted
    /\ app.showTaskForm
    /\ app.editingTask # <<>>
    /\ event.handler = "handleSubmit"
    /\ event.dispatched[1].op = "updateTask"

\* The update was fulfilled and the form closed: hidden, no edit target.
C35_WitnessClosed ==
    /\ app.mounted
    /\ event.handler = "handleSubmit.unwrap"
    /\ event.dismissed = 1
    /\ last.op = "updateTask"
    /\ ~app.showTaskForm
    /\ app.editingTask = <<>>


\* The request dispatched last, while its pending action is the last one
\* reduced: its caller, and whether another request was in flight with it.
Started == Pending /\ inflight # <<>>
Origin == inflight[Len(inflight)].origin
Overlaps == Len(inflight) >= 2

\* C33 as stated: no toggleTask or deleteTask is initiated from a row while
\* loading is true or error is non-empty, and an operation starts while
\* another is in flight only through a form submit or while loading is
\* falsely false.
C33_OverlapBySubmitOnly ==
    /\ (Started /\ Origin \in {"handleToggle", "handleDelete"}) =>
          (~Before.loading /\ ~Truthy(Before.error))
    /\ (Started /\ Overlaps) => (Origin = "handleSubmit" \/ ~Before.loading)

\* C33: no toggleTask or deleteTask is initiated from a row while loading is
\* true or error is non-empty; an operation starts while another is in flight
\* only through a form submit, while loading is falsely false, or as the
\* mount fetch of a root view rendered again with requests still in flight.
C33_OverlapBySubmitOrMount ==
    /\ (Started /\ Origin \in {"handleToggle", "handleDelete"}) =>
          (~Before.loading /\ ~Truthy(Before.error))
    /\ (Started /\ Overlaps) =>
          \/ Origin = "handleSubmit"
          \/ ~Before.loading
          \/ Origin = "App" /\ last.op = "fetchTasks"

\* A toggle was started from the row while loading was falsely false: the
\* list showed rows with another request in flight.
C33_Witness ==
    /\ Started
    /\ Overlaps
    /\ Origin = "handleToggle"
    /\ ~Before.loading
    /\ Before.error = NULL

\* A form submit started an operation while loading was true.
C33_WitnessSubmit ==
    /\ Started
    /\ Overlaps
    /\ Origin = "handleSubmit"
    /\ Before.loading


\* The requests in flight that the open form's submits dispatched and await.
OwnRequests == {i \in Requests : inflight[i].origin = "handleSubmit" /\ inflight[i].awaited}

\* C34 as stated: an opened form never has two of its own create / update
\* requests in flight, and a submit made while one is in flight dispatches
\* nothing.
C34_OneSubmitInFlight ==
    /\ Cardinality(OwnRequests) <= 1
    /\ (event.handler = "handleSubmit" /\ event.before.issued > settled) =>
          event.dispatched = <<>>

\* C34: the submit is not gated by the form's own request in flight. A valid
\* submit is possible while the form is open, and a submit made while an
\* earlier request of the form is in flight dispatches one more request, the
\* same operation on the same target, in flight next to the earlier one.
C34_SecondSubmitDispatches ==
    /\ (app.showTaskForm /\ ~titleMissing(form.title) /\ OwnRequests # {}
        /\ issued < limit) => ENABLED handleSubmit_dispatch
    /\ (event.handler = "handleSubmit" /\ ~event.alert
        /\ event.before.issued > settled) =>
          /\ Len(event.dispatched) = 1
          /\ issued = event.before.issued + 1
          /\ Cardinality(OwnRequests) = Len(inflight)
          /\ Len(inflight) >= 2
          /\ \A i \in Requests : inflight[i].op = event.dispatched[1].op
          /\ Value(inflight[Len(inflight)].arg) = Value(event.dispatched[1].arg)

\* The open form was submitted twice: two of its requests are in flight.
C34_Witness ==
    /\ event.handler = "handleSubmit"
    /\ app.showTaskForm
    /\ Cardinality(OwnRequests) = 2
    /\ inflight[1].op = "addTask"
    /\ inflight[2].op = "addTask"


\* The deleteTask requests in flight for the task id.
DeletesOf(id) == {i \in Requests : inflight[i].op = "deleteTask" /\ Value(inflight[i].arg) = id}

\* C32: in the composed views at most one deleteTask request per task is in
\* flight, and the delete button of a row is disabled whenever a delete of
\* its task is outstanding.
C32_OneDeletePerTask ==
    /\ \A i \in Requests : inflight[i].op = "deleteTask" =>
           Cardinality(DeletesOf(Value(inflight[i].arg))) <= 1
    /\ \A task \in MountedTasks : DeletesOf(task._id) # {} => task._id \in deleting

\* The first half of C32 alone: two deletes of one task in flight.
C32_NoTwoDeletes ==
    \A i \in Requests : inflight[i].op = "deleteTask" =>
        Cardinality(DeletesOf(Value(inflight[i].arg))) <= 1


\* C36 as stated: the auto-dismiss timer never clears a failure recorded
\* later than the one it was started for, so every failure stays in error
\* until its own timer fires, a new operation begins or clearError is
\* dispatched by hand, also when overlapping operations fail with one message.
C36_TimerClearsOwnFailure ==
    event.handler = "timer" => ~app.overtaken

\* C36: a pending timer is overtaken by a later failure only when that
\* failure repeats the message already in error: a failure with another
\* message replaces the one in error and sets a new timer, and the timer that
\* fires clears the message it was started for, which is the message of the
\* latest failure. A message in error is changed only by a pending action,
\* clearError or a rejected action.
C36_TimerOvertakenOnlyBySameMessage ==
    /\ (Truthy(Before.error) /\ error # Before.error) =>
          last.type \in {"pending", "clearError", "rejected"}
    /\ (last.type = "rejected" /\ app.mounted /\ app.overtaken) =>
          (Before.error = error /\ app.timer = <<error>>)
    /\ (last.type = "rejected" /\ app.mounted /\ Before.error # error) =>
          (app.timer = <<error>> /\ ~app.overtaken)
    /\ event.handler = "timer" =>
          /\ event.before.slice.error = last.rejected
          /\ app.overtaken => Truthy(event.before.slice.error)

\* Two overlapping operations failed with one message and the timer started
\* for the first failure cleared the second.
C36_Witness ==
    /\ event.handler = "timer"
    /\ app.overtaken
    /\ error = NULL
    /\ event.before.slice.error = "Validation error"

\* Two overlapping operations failed with different messages: the second
\* failure set a new timer.
C36_WitnessRestarted ==
    /\ last.type = "rejected"
    /\ app.mounted
    /\ Truthy(Before.error)
    /\ Before.error # error
    /\ app.timer = <<error>>
    /\ ~app.overtaken


\* C37: when every request issued completes and no further operation is
\* issued, the slice reaches and stays in a state with loading false; if the
\* root view also stays mounted, error becomes and stays null, and the list
\* view shows the rows or the empty state, not the spinner or the error text.
C37_Quiescence ==
    /\ <>[](inflight = <<>> /\ ~loading)
    /\ (<>[]app.mounted) =>
          <>[](error = NULL /\ TaskList(SliceState).view \in {"rows", "empty"})

\* Every request the behaviour may issue has completed, the last failure was
\* cleared by its timer, and the list view shows the empty state.
C37_Witness ==
    /\ issued = limit
    /\ inflight = <<>>
    /\ app.mounted
    /\ event.handler = "timer"
    /\ ~loading
    /\ error = NULL
    /\ TaskList(SliceState).view = "empty"

====
